---- MODULE Spec2Model ----
(***************************************************************************)
(* Model of terraform-provider-startrail: the provider Configure           *)
(* (credential decision and device-flow bootstrap), the lifecycle          *)
(* operations of the startrail_service resource and data source, the       *)
(* attribute <-> domain mapping (post / parseServiceResponse) and the      *)
(* translation of remote diagnostics (handleStartrailDiagnostics).         *)
(*                                                                         *)
(* Go values are modelled as follows.                                      *)
(*   types.String / types.Bool / types.Map : a record with a null flag,   *)
(*       so that a null attribute and a zero value stay distinct;          *)
(*   map[string]T : a set of <<key, value>> pairs with unique keys;        *)
(*   a slice : a sequence;                                                 *)
(*   diag.Diagnostics : a sequence of [severity, summary, detail].         *)
(***************************************************************************)
EXTENDS Integers, Sequences, FiniteSets, TLC

VARIABLES
    osEnv,          \* the process environment: STARTRAIL_TOKEN, STARTRAIL_API_KEY
    keyring,        \* the credential store entry ("startrail", "refresh_token")
    cfgLast,        \* the last provider Configure call: inputs, external calls, diagnostics
    resourceData,   \* resp.ResourceData: the client handed to resources
    dataSourceData, \* resp.DataSourceData: the client handed to data sources
    state,          \* Terraform state of the startrail_service resource
    dsState,        \* Terraform state of the startrail_service data source
    last,           \* the last lifecycle operation: inputs, request, response, diagnostics
    race            \* provider processes inside the device-flow branch of Configure

vars == <<osEnv, keyring, cfgLast, resourceData, dataSourceData, state, dsState, last, race>>

-----------------------------------------------------------------------------
(* Bounds of the model.                                                    *)

\* longest remote diagnostics list handed to handleStartrailDiagnostics
MaxDiags == 3
\* longest access / logging / source block lists of an attribute set
MaxAccess == 2
MaxLogging == 2
MaxSources == 1

\* the only status code the handlers accept
StatusOK == 200

-----------------------------------------------------------------------------
(* Framework attribute values (terraform-plugin-framework types).          *)

NullString == [null |-> TRUE, v |-> ""]
StringValue(s) == [null |-> FALSE, v |-> s]
ValueString(x) == IF x.null THEN "" ELSE x.v

NullBool == [null |-> TRUE, v |-> FALSE]
BoolValue(b) == [null |-> FALSE, v |-> b]
ValueBool(x) == IF x.null THEN FALSE ELSE x.v

NullMap == [null |-> TRUE, elems |-> {}]
MapValue(m) == [null |-> FALSE, elems |-> m]
\* Labels.ElementsAs(ctx, &b.Labels, true): a null map is read as no entries
ElementsAs(x) == IF x.null THEN {} ELSE x.elems

(* Go maps as sets of <<key, value>> pairs.                                *)
MapKeys(m) == {p[1] : p \in m}
\* a faulty variant of MapPut: the first entry of a key is kept
MapPutFirstWins(m, k, v) == IF k \in MapKeys(m) THEN m ELSE m \cup {<<k, v>>}
\* m[k] = v
MapPut(m, k, v) == {p \in m : p[1] # k} \cup {<<k, v>>}

\* the orders in which a `for k, v := range m` may visit a Go map
RangeOrders(m) ==
    {o \in [1..Cardinality(m) -> m] : \A i, j \in 1..Cardinality(m) : i # j => o[i] # o[j]}

Range(s) == {s[i] : i \in DOMAIN s}

-----------------------------------------------------------------------------
(* diag.Diagnostics                                                        *)

ErrorDiagnostic(summary, detail) ==
    [severity |-> "error", summary |-> summary, detail |-> detail]
WarningDiagnostic(summary, detail) ==
    [severity |-> "warning", summary |-> summary, detail |-> detail]

\* Diagnostics.Append: a diagnostic the collection already contains is not added
Append1(diags, d) == IF d \in Range(diags) THEN diags ELSE Append(diags, d)
AddError(diags, summary, detail) == Append1(diags, ErrorDiagnostic(summary, detail))
AddWarning(diags, summary, detail) == Append1(diags, WarningDiagnostic(summary, detail))
HasError(diags) == \E i \in DOMAIN diags : diags[i].severity = "error"

RECURSIVE AppendAll(_, _)
AppendAll(diags, more) ==
    IF more = <<>> THEN diags ELSE AppendAll(Append1(diags, Head(more)), Tail(more))

\* a faulty variant of handleStartrailDiagnostics: warnings are reported as errors
RECURSIVE handleStartrailDiagnosticsAllErrors(_, _)
handleStartrailDiagnosticsAllErrors(diagnostics, diags) ==
    IF diagnostics = <<>> THEN diags
    ELSE LET d == Head(diagnostics) IN
         handleStartrailDiagnosticsAllErrors(Tail(diagnostics),
            IF d.Severity \in {"error", "Error", "warning", "Warning"}
            THEN AddError(diags, d.Summary, d.Detail)
            ELSE diags)

RECURSIVE handleStartrailDiagnostics(_, _)
handleStartrailDiagnostics(diagnostics, diags) ==
    IF diagnostics = <<>> THEN diags
    ELSE LET d == Head(diagnostics) IN
         handleStartrailDiagnostics(Tail(diagnostics),
            IF d.Severity = "error" \/ d.Severity = "Error"
            THEN AddError(diags, d.Summary, d.Detail)
            ELSE IF d.Severity = "warning" \/ d.Severity = "Warning"
            THEN AddWarning(diags, d.Summary, d.Detail)
            ELSE diags)

-----------------------------------------------------------------------------
(* The provider client and the attribute model (ServiceModel).             *)

NoClient == [set |-> FALSE]
\* a faulty variant of StartrailProviderClient: the client carries no header
StartrailProviderClientNoHeader(authorization, tenant, environment) ==
    [set |-> TRUE, Authorization |-> "", Tenant |-> tenant, Environment |-> environment]
\* &StartrailProviderClient{Client: newClient(u, version, token, debug), Tenant, Environment}
StartrailProviderClient(authorization, tenant, environment) ==
    [set |-> TRUE, Authorization |-> authorization,
     Tenant |-> tenant, Environment |-> environment]

NoMetadata == [present |-> FALSE, Labels |-> NullMap]

\* ServiceModel{}: every attribute null, every block list empty, no metadata
ZeroModel ==
    [Id |-> NullString, Access |-> <<>>, Description |-> NullString,
     Disabled |-> NullBool, Environment |-> NullString, Logging |-> <<>>,
     Metadata |-> NoMetadata, Name |-> NullString, Remarks |-> NullString,
     Sources |-> <<>>]

NullState == [present |-> FALSE]
\* State.Set(ctx, &data)
StateSet(data) == [present |-> TRUE, data |-> data]

-----------------------------------------------------------------------------
(* The domain document (bindings.Service) and the to-domain mapping.       *)

\* bindings.NullableMetadata{}: unset
UnsetMetadata == [has |-> FALSE, labelsNil |-> TRUE, labels |-> {}]
NilBool == [set |-> FALSE, v |-> FALSE]
\* Disabled.ValueBoolPointer(): nil for a null attribute
ValueBoolPointer(x) == IF x.null THEN NilBool ELSE [set |-> TRUE, v |-> x.v]
\* Service.GetDisabled(): false for a nil pointer
GetDisabled(s) == IF s.Disabled.set THEN s.Disabled.v ELSE FALSE

\* a faulty variant of ResolveEnvironment: the resource's own value is always sent
ResolveEnvironmentNoFallback(environment, client) == environment
\* environment := data.Environment.ValueString(); if environment == "" { ... }
ResolveEnvironment(environment, client) ==
    IF environment = "" THEN client.Environment ELSE environment

AccessToDomain(list) ==
    [i \in DOMAIN list |->
        [Auth |-> ValueBool(list[i].Auth),
         Endpoint |-> ValueString(list[i].Endpoint),
         Internal |-> ValueBool(list[i].Internal)]]

\* for _, l := range data.Logging { ...; logging[l.Source.ValueString()] = b }
RECURSIVE LabelledToDomain(_, _)
LabelledToDomain(list, acc) ==
    IF list = <<>> THEN acc
    ELSE LabelledToDomain(Tail(list),
            MapPut(acc, ValueString(Head(list).Source), ElementsAs(Head(list).Labels)))

\* the bindings.Service that post builds and sends
PostService(data, client) ==
    [Name |-> ValueString(data.Name),
     Description |-> ValueString(data.Description),
     Remarks |-> ValueString(data.Remarks),
     Environment |-> ResolveEnvironment(ValueString(data.Environment), client),
     Tenant |-> client.Tenant,
     Disabled |-> ValueBoolPointer(data.Disabled),
     Access |-> AccessToDomain(data.Access),
     Metadata |-> UnsetMetadata,
     Logging |-> LabelledToDomain(data.Logging, {}),
     Sources |-> LabelledToDomain(data.Sources, {})]

-----------------------------------------------------------------------------
(* The from-domain mapping (parseServiceResponse).                         *)

\* a faulty variant of LabelledFromDomain: every element carries the first key visited
LabelledFromDomainStaleKey(order) ==
    [i \in DOMAIN order |->
        [Labels |-> MapValue(order[i][2]), Source |-> StringValue(order[1][1])]]
\* for k, v := range s.Logging { ... append(..., {Labels: labels, Source: k}) }
LabelledFromDomain(order) ==
    [i \in DOMAIN order |->
        [Labels |-> MapValue(order[i][2]), Source |-> StringValue(order[i][1])]]

MetadataFromDomain(m) ==
    IF m.has /\ ~m.labelsNil
    THEN [present |-> TRUE, Labels |-> MapValue(m.labels)]
    ELSE NoMetadata

\* a faulty variant of AccessFromDomain: the rules come out last first
AccessFromDomainReversed(list) ==
    [i \in DOMAIN list |->
        [Auth |-> BoolValue(list[Len(list) + 1 - i].Auth),
         Endpoint |-> StringValue(list[Len(list) + 1 - i].Endpoint),
         Internal |-> BoolValue(list[Len(list) + 1 - i].Internal)]]
\* for _, a := range s.Access { tfAccess = append(tfAccess, ...) }
AccessFromDomain(list) ==
    [i \in DOMAIN list |->
        [Auth |-> BoolValue(list[i].Auth),
         Endpoint |-> StringValue(list[i].Endpoint),
         Internal |-> BoolValue(list[i].Internal)]]

\* a faulty variant of ServiceId: name and environment change places
ServiceIdSwapped(s) == s.Tenant \o "/" \o s.Name \o "/" \o s.Environment
\* fmt.Sprintf("%s/%s/%s", s.GetTenant(), s.GetEnvironment(), s.GetName())
ServiceId(s) == s.Tenant \o "/" \o s.Environment \o "/" \o s.Name

\* a faulty variant of ParseServiceResponse: remarks are filled from the description
ParseServiceResponseSwapped(s, lo, so) ==
    [Id |-> StringValue(ServiceId(s)),
     Name |-> StringValue(s.Name),
     Description |-> StringValue(s.Description),
     Remarks |-> StringValue(s.Description),
     Environment |-> StringValue(s.Environment),
     Disabled |-> BoolValue(GetDisabled(s)),
     Access |-> AccessFromDomain(s.Access),
     Metadata |-> MetadataFromDomain(s.Metadata),
     Logging |-> LabelledFromDomain(lo),
     Sources |-> LabelledFromDomain(so)]
\* the model parsed from response s when its maps are visited in the orders lo, so
ParseServiceResponse(s, lo, so) ==
    [Id |-> StringValue(ServiceId(s)),
     Name |-> StringValue(s.Name),
     Description |-> StringValue(s.Description),
     Remarks |-> StringValue(s.Remarks),
     Environment |-> StringValue(s.Environment),
     Disabled |-> BoolValue(GetDisabled(s)),
     Access |-> AccessFromDomain(s.Access),
     Metadata |-> MetadataFromDomain(s.Metadata),
     Logging |-> LabelledFromDomain(lo),
     Sources |-> LabelledFromDomain(so)]

\* every model parseServiceResponse may return: Go visits a map in any order
ParseServiceResponses(s) ==
    {ParseServiceResponse(s, lo, so) :
        lo \in RangeOrders(s.Logging), so \in RangeOrders(s.Sources)}

-----------------------------------------------------------------------------
(* The remote service client: a black box returning either a transport     *)
(* error or a response with a status code, a diagnostics list and a        *)
(* service document.                                                       *)

EmptyService ==
    [Name |-> "", Description |-> "", Remarks |-> "", Environment |-> "",
     Tenant |-> "", Disabled |-> NilBool, Access |-> <<>>,
     Metadata |-> UnsetMetadata, Logging |-> {}, Sources |-> {}]

TransportError ==
    [err |-> TRUE, StatusCode |-> 0, Diagnostics |-> <<>>, Response |-> EmptyService]
HttpResponse(status, diagnostics, service) ==
    [err |-> FALSE, StatusCode |-> status, Diagnostics |-> diagnostics,
     Response |-> service]

\* r.post after the request was built: the set of (data, diags) it may return
PostResults(r) ==
    IF r.err
    THEN {[data |-> ZeroModel,
           diags |-> AddError(<<>>, "Client Error",
                        "Unable to update service, got error: transport")]}
    ELSE LET diags == handleStartrailDiagnostics(r.Diagnostics, <<>>) IN
         IF HasError(diags)
         THEN {[data |-> ZeroModel, diags |-> diags]}
         ELSE IF r.StatusCode # StatusOK
         THEN {[data |-> ZeroModel,
                diags |-> AddError(diags, "Client Error",
                            "Unable to update service, got errors: body")]}
         \* data, diags = parseServiceResponse(startrailResponse)
         ELSE {[data |-> m, diags |-> <<>>] : m \in ParseServiceResponses(r.Response)}

\* Read and the data source's Read after the Get request was issued:
\* the diagnostics reported and the models that may be written
GetResults(r) ==
    IF r.err
    THEN {[write |-> FALSE, data |-> ZeroModel,
           diags |-> AddError(<<>>, "Client Error",
                        "Unable to delete service, got error: transport")]}
    ELSE LET diags == handleStartrailDiagnostics(r.Diagnostics, <<>>) IN
         IF HasError(diags)
         THEN {[write |-> FALSE, data |-> ZeroModel, diags |-> diags]}
         ELSE IF r.StatusCode # StatusOK
         THEN {[write |-> FALSE, data |-> ZeroModel,
                diags |-> AddError(diags, "Client Error",
                            "Unable to delete service, got error: body")]}
         ELSE {[write |-> TRUE, data |-> m, diags |-> diags] :
                    m \in ParseServiceResponses(r.Response)}

-----------------------------------------------------------------------------
(* Inputs: attribute sets, provider clients and remote responses.          *)

SeqsUpTo(S, n) == UNION {[1..k -> S] : k \in 0..n}

AccessBlocks ==
    {[Auth |-> BoolValue(TRUE), Endpoint |-> StringValue("https://example.com/hello"),
      Internal |-> BoolValue(FALSE)],
     [Auth |-> NullBool, Endpoint |-> StringValue("http://hello.internal"),
      Internal |-> BoolValue(TRUE)]}

LabelMaps == {NullMap, MapValue({<<"team", "a">>, <<"tier", "x">>})}
SourceNames == {"app", "sys"}
LabelledBlocks == [Labels : LabelMaps, Source : {StringValue(n) : n \in SourceNames}]
MetadataBlocks == {NoMetadata, [present |-> TRUE, Labels |-> MapValue({<<"owner", "ops">>})]}

\* attribute sets of a startrail_service block; the id is computed, never planned.
\* The schema validators reject an empty environment; the handlers still
\* resolve one, so it is part of the inputs.
AttributeSets(environments, texts, bools, accessLists, loggingLists, sourceLists, metadatas) ==
    [Id : {NullString}, Name : {StringValue("hello-world")},
     Environment : {StringValue(e) : e \in environments},
     Description : texts, Remarks : texts, Disabled : bools,
     Access : accessLists, Logging : loggingLists, Sources : sourceLists,
     Metadata : metadatas]

Texts == {NullString, StringValue("A service which tells hello world")}

TwoSources ==
    <<[Labels |-> MapValue({<<"team", "a">>}), Source |-> StringValue("app")],
      [Labels |-> NullMap, Source |-> StringValue("sys")]>>

\* the attribute sets the mapping is checked on: every combination of the
\* scalar attributes with fixed blocks, and every combination of block lists
\* with fixed scalar attributes
MapperPlans ==
    AttributeSets({"", "prod"}, Texts, {NullBool, BoolValue(TRUE)},
        {<<>>}, {TwoSources}, {<<>>}, MetadataBlocks)
    \cup
    AttributeSets({"", "prod"}, {StringValue("A service which tells hello world")},
        {NullBool}, SeqsUpTo(AccessBlocks, MaxAccess), SeqsUpTo(LabelledBlocks, MaxLogging),
        SeqsUpTo(LabelledBlocks, MaxSources), {NoMetadata})

\* the attribute sets the lifecycle is checked on
LifecyclePlans ==
    AttributeSets({"", "prod"}, {StringValue("A service which tells hello world")},
        {NullBool}, {<<>>}, {TwoSources}, {<<>>}, {NoMetadata})

\* the clients provider Configure hands over: the tenant falls back to "default"
ConfiguredClients ==
    {StartrailProviderClient("Bearer tok", "default", "staging"),
     StartrailProviderClient("apiKey key", "acme", "")}

RemoteDiagnostic(severity, summary, detail) ==
    [Severity |-> severity, Summary |-> summary, Detail |-> detail]

\* the diagnostics lists of the remote responses of the lifecycle
LifecycleDiagnostics ==
    {<<>>,
     <<RemoteDiagnostic("warning", "deprecated", "use v2")>>,
     <<RemoteDiagnostic("error", "rejected", "quota")>>,
     <<RemoteDiagnostic("error", "rejected", "quota"),
       RemoteDiagnostic("warning", "deprecated", "use v2")>>,
     <<RemoteDiagnostic("ERROR", "rejected", "quota")>>}

RemoteStatusCodes == {StatusOK, 500}

\* a service of another key, with a metadata block
OtherService ==
    [Name |-> "other", Description |-> "another service", Remarks |-> "",
     Environment |-> "dev", Tenant |-> "globex", Disabled |-> [set |-> TRUE, v |-> TRUE],
     Access |-> <<[Auth |-> TRUE, Endpoint |-> "https://example.com/other", Internal |-> FALSE]>>,
     Metadata |-> [has |-> TRUE, labelsNil |-> FALSE, labels |-> {<<"owner", "ops">>}],
     Logging |-> {}, Sources |-> {<<"git", {}>>}]

\* the service the remote holds under (tenant, environment, name)
StoredService(tenant, environment, name) ==
    [EmptyService EXCEPT !.Tenant = tenant, !.Environment = environment, !.Name = name,
        !.Description = "stored",
        !.Metadata = [has |-> TRUE, labelsNil |-> TRUE, labels |-> {}],
        !.Logging = {<<"app", {<<"team", "a">>}>>}]

\* what Execute may return when the remote would answer with one of `services`
Responses(services) ==
    {TransportError} \cup
    {HttpResponse(st, ds, s) :
        st \in RemoteStatusCodes, ds \in LifecycleDiagnostics, s \in services}

CreateRequest(service) == [api |-> "Create", Service |-> service]
GetRequest(tenant, environment, name) ==
    [api |-> "Get", Tenant |-> tenant, Environment |-> environment, Name |-> name]
DeleteRequest(tenant, environment, name) ==
    [api |-> "Delete", Tenant |-> tenant, Environment |-> environment, Name |-> name]
NoRequest == [api |-> "none"]

NoOperation == [op |-> "none"]

\* the provider processes that share the credential store
Processes == {"p1", "p2", "p3"}
\* a process and its locals inside the device-flow branch: where it stands,
\* refreshToken as read from the store, t.RefreshToken and the header built
\* from t.AccessToken, how many writes the store had taken when Token
\* returned, and whether its own keyring.Set took effect
ProcessAt(pc, refreshToken, rotated, token, exchangedAt, wrote) ==
    [pc |-> pc, refreshToken |-> refreshToken, rotated |-> rotated, token |-> token,
     exchangedAt |-> exchangedAt, wrote |-> wrote]
\* no process is inside the device-flow branch; writes lists the processes
\* whose keyring.Set took effect, in order
NoRace == [proc |-> [p \in Processes |-> ProcessAt("none", "", "", "", 0, FALSE)],
           writes |-> <<>>]
Operation(op, data, sent, resp, diags, wrote, calls) ==
    [op |-> op, data |-> data, sent |-> sent, resp |-> resp, diags |-> diags,
     wrote |-> wrote, calls |-> calls]

-----------------------------------------------------------------------------
(* Lifecycle operations of the resource and of the data source.            *)

\* ServiceResource.Create with plan `data`, the remote answering `r`
Create(data, r) ==
    /\ resourceData.set
    /\ \E p \in PostResults(r) :
        LET diags == AppendAll(<<>>, p.diags) IN
        \* the state is set whatever post reported
        /\ state' = StateSet(p.data)
        /\ last' = Operation("Create", data,
                        CreateRequest(PostService(data, resourceData)), r, diags, TRUE, 1)
    /\ UNCHANGED <<osEnv, race, keyring, cfgLast, resourceData, dataSourceData, dsState>>

\* ServiceResource.Update with plan `data`, the remote answering `r`
Update(data, r) ==
    /\ resourceData.set
    /\ state.present
    /\ \E p \in PostResults(r) :
        LET diags == AppendAll(<<>>, p.diags) IN
        /\ state' = IF HasError(diags) THEN state ELSE StateSet(p.data)
        /\ last' = Operation("Update", data,
                        CreateRequest(PostService(data, resourceData)), r, diags,
                        ~HasError(diags), 1)
    /\ UNCHANGED <<osEnv, race, keyring, cfgLast, resourceData, dataSourceData, dsState>>

\* ServiceResource.Read of the prior state, the remote answering `r`
Read(r) ==
    /\ resourceData.set
    /\ state.present
    /\ \E g \in GetResults(r) :
        /\ state' = IF g.write THEN StateSet(g.data) ELSE state
        /\ last' = Operation("Read", state.data,
                        GetRequest(resourceData.Tenant,
                            ResolveEnvironment(ValueString(state.data.Environment), resourceData),
                            ValueString(state.data.Name)),
                        r, g.diags, g.write, 1)
    /\ UNCHANGED <<osEnv, race, keyring, cfgLast, resourceData, dataSourceData, dsState>>

\* ServiceDataSource.Read of configuration `data`, the remote answering `r`
DataSourceRead(data, r) ==
    /\ dataSourceData.set
    /\ \E g \in GetResults(r) :
        /\ dsState' = IF g.write THEN StateSet(g.data) ELSE dsState
        /\ last' = Operation("DataSourceRead", data,
                        GetRequest(dataSourceData.Tenant,
                            ResolveEnvironment(ValueString(data.Environment), dataSourceData),
                            ValueString(data.Name)),
                        r, g.diags, g.write, 1)
    /\ UNCHANGED <<osEnv, race, keyring, cfgLast, resourceData, dataSourceData, state>>

\* a faulty variant of DeleteDiagnostics: the remote diagnostics are not looked at
DeleteDiagnosticsStatusOnly(r) ==
    IF r.err
    THEN AddError(<<>>, "Client Error", "Unable to delete service, got error: transport")
    ELSE IF r.StatusCode # StatusOK
    THEN AddError(<<>>, "Client Error", "Unable to delete service, got error: body")
    ELSE <<>>
\* the diagnostics ServiceResource.Delete reports when the remote answers `r`
DeleteDiagnostics(r) ==
    IF r.err
    THEN AddError(<<>>, "Client Error", "Unable to delete service, got error: transport")
    ELSE LET diags == handleStartrailDiagnostics(r.Diagnostics, <<>>) IN
         IF HasError(diags) THEN diags
         ELSE IF r.StatusCode # StatusOK
         THEN AddError(diags, "Client Error", "Unable to delete service, got error: body")
         ELSE diags

\* ServiceResource.Delete of the prior state, the remote answering `r`
Delete(r) ==
    /\ resourceData.set
    /\ state.present
    /\ last' = Operation("Delete", state.data,
                    DeleteRequest(resourceData.Tenant,
                        ResolveEnvironment(ValueString(state.data.Environment), resourceData),
                        ValueString(state.data.Name)),
                    r, DeleteDiagnostics(r), FALSE, 1)
    /\ UNCHANGED <<osEnv, race, keyring, cfgLast, resourceData, dataSourceData, state, dsState>>

\* a faulty variant of ImportState: the identifier is decomposed into the
\* environment and name attributes
ImportStateDecomposes(id) ==
    /\ state' = StateSet([ZeroModel EXCEPT !.Id = StringValue(id),
                    !.Environment = StringValue("prod"), !.Name = StringValue("hello-world")])
    /\ last' = Operation("ImportState", [ZeroModel EXCEPT !.Id = StringValue(id)],
                    NoRequest, TransportError, <<>>, TRUE, 0)
    /\ UNCHANGED <<osEnv, race, keyring, cfgLast, resourceData, dataSourceData, dsState>>
\* ServiceResource.ImportState: resource.ImportStatePassthroughID on path "id"
ImportState(id) ==
    /\ state' = StateSet([ZeroModel EXCEPT !.Id = StringValue(id)])
    /\ last' = Operation("ImportState", [ZeroModel EXCEPT !.Id = StringValue(id)],
                    NoRequest, TransportError, <<>>, TRUE, 0)
    /\ UNCHANGED <<osEnv, race, keyring, cfgLast, resourceData, dataSourceData, dsState>>

-----------------------------------------------------------------------------
(* Specification of the lifecycle: the provider is configured, the         *)
(* resource is not yet in state.                                           *)

NoConfigure == [called |-> FALSE]

Init ==
    /\ osEnv = [STARTRAIL_TOKEN |-> "", STARTRAIL_API_KEY |-> ""]
    /\ keyring = [stored |-> FALSE, token |-> ""]
    /\ cfgLast = NoConfigure
    /\ resourceData \in ConfiguredClients
    /\ dataSourceData = resourceData
    /\ state = NullState
    /\ dsState = NullState
    /\ last = NoOperation
    /\ race = NoRace

DoCreate ==
    /\ resourceData.set
    /\ \E data \in LifecyclePlans :
        \E r \in Responses({PostService(data, resourceData), OtherService}) :
            Create(data, r)

DoUpdate ==
    /\ resourceData.set
    /\ \E data \in LifecyclePlans :
        \E r \in Responses({PostService(data, resourceData), OtherService}) :
            Update(data, r)

DoRead ==
    /\ resourceData.set
    /\ state.present
    /\ \E r \in Responses({StoredService(resourceData.Tenant,
                                ResolveEnvironment(ValueString(state.data.Environment), resourceData),
                                ValueString(state.data.Name)),
                           OtherService}) :
            Read(r)

DataSourceConfigs ==
    {[ZeroModel EXCEPT !.Name = StringValue("hello-world"), !.Environment = StringValue(e)] :
        e \in {"", "prod"}}

DoDataSourceRead ==
    /\ dataSourceData.set
    /\ \E data \in DataSourceConfigs :
        \E r \in Responses({StoredService(dataSourceData.Tenant,
                                ResolveEnvironment(ValueString(data.Environment), dataSourceData),
                                ValueString(data.Name))}) :
            DataSourceRead(data, r)

DoDelete ==
    \E r \in Responses({EmptyService}) : Delete(r)

DoImportState ==
    \E id \in {"acme/prod/hello-world"} : ImportState(id)

Next ==
    \/ DoCreate
    \/ DoUpdate
    \/ DoRead
    \/ DoDataSourceRead
    \/ DoDelete
    \/ DoImportState

Spec == Init /\ [][Next]_vars

-----------------------------------------------------------------------------
(* Provider Configure: the credential decision and the device-flow         *)
(* bootstrap.                                                              *)

\* an endpoint url.Parse rejects: an unclosed IPv6 literal
InvalidEndpoints == {"http://[::1"}
\* a faulty variant of UrlParseFails: every endpoint is accepted
UrlParseAccepts(endpoint) == FALSE
UrlParseFails(endpoint) == endpoint \in InvalidEndpoints

ProviderConfigs ==
    [Endpoint : {StringValue("http://localhost:8000"), StringValue("http://[::1")},
     ApiKey : {NullString, StringValue(""), StringValue("cfgkey")},
     Tenant : {NullString, StringValue("acme")},
     Environment : {NullString, StringValue("staging")}]

\* what client.HelloAPI.WellKnownAuth(ctx).Execute() may return
WellKnownResults ==
    {[err |-> TRUE, StatusCode |-> 0, Enabled |-> FALSE],
     [err |-> FALSE, StatusCode |-> 500, Enabled |-> FALSE],
     [err |-> FALSE, StatusCode |-> StatusOK, Enabled |-> FALSE],
     [err |-> FALSE, StatusCode |-> StatusOK, Enabled |-> TRUE]}

\* what tokenSource.Token() may return for a refresh token
TokenResults ==
    {[err |-> TRUE, AccessToken |-> "", RefreshToken |-> ""],
     [err |-> FALSE, AccessToken |-> "at1", RefreshToken |-> ""],
     [err |-> FALSE, AccessToken |-> "at1", RefreshToken |-> "rt1"]}

ConfigureOutcome(diags, calls, token, store) ==
    [diags |-> diags, calls |-> calls, token |-> token, store |-> store]

\* a faulty variant of DeviceFlow: a tenant without device flow goes on to the
\* credential store
DeviceFlowIgnoresDisabled(wk, ex, setOK, store) ==
    IF wk.err \/ wk.StatusCode # StatusOK
    THEN ConfigureOutcome(AddError(<<>>, "Client Error", "Unable to authenticate"),
            <<"WellKnownAuth">>, "", store)
    ELSE IF ~store.stored
    THEN ConfigureOutcome(AddError(<<>>, "Client Error",
                "Unable to get refresh token from keyring, got error"),
            <<"WellKnownAuth", "keyring.Get">>, "", store)
    ELSE IF ex.err
    THEN ConfigureOutcome(AddError(<<>>, "Client Error",
                "Unable to get token from token source, got error"),
            <<"WellKnownAuth", "keyring.Get", "Token">>, "", store)
    ELSE ConfigureOutcome(<<>>, <<"WellKnownAuth", "keyring.Get", "Token">>,
            "Bearer " \o ex.AccessToken, store)
\* a faulty variant of DeviceFlow: without a stored refresh token the exchange
\* is attempted with an empty one
DeviceFlowExchangesWithoutToken(wk, ex, setOK, store) ==
    IF wk.err \/ wk.StatusCode # StatusOK \/ ~wk.Enabled
    THEN ConfigureOutcome(AddError(<<>>, "Client Error", "Unable to authenticate"),
            <<"WellKnownAuth">>, "", store)
    ELSE IF ex.err
    THEN ConfigureOutcome(AddError(<<>>, "Client Error",
                "Unable to get token from token source, got error"),
            <<"WellKnownAuth", "keyring.Get", "Token">>, "", store)
    ELSE ConfigureOutcome(<<>>, <<"WellKnownAuth", "keyring.Get", "Token">>,
            "Bearer " \o ex.AccessToken, store)
\* the device-flow branch: the external calls made, the diagnostics, the header
DeviceFlow(wk, ex, setOK, store) ==
    IF wk.err
    THEN ConfigureOutcome(AddError(<<>>, "Client Error", "Unable to authenticate, got error"),
            <<"WellKnownAuth">>, "", store)
    ELSE IF wk.StatusCode # StatusOK
    THEN ConfigureOutcome(AddError(<<>>, "Client Error", "Unable to authenticate, got status code"),
            <<"WellKnownAuth">>, "", store)
    ELSE IF ~wk.Enabled
    THEN ConfigureOutcome(AddError(<<>>, "Client Error",
                "Device flow is not enabled for the tenant. Please pass an 'api_key' instead"),
            <<"WellKnownAuth">>, "", store)
    ELSE IF ~store.stored
    THEN ConfigureOutcome(AddError(<<>>, "Client Error",
                "Unable to get refresh token from keyring, got error"),
            <<"WellKnownAuth", "keyring.Get">>, "", store)
    ELSE IF ex.err
    THEN ConfigureOutcome(AddError(<<>>, "Client Error",
                "Unable to get token from token source, got error"),
            <<"WellKnownAuth", "keyring.Get", "Token">>, "", store)
    ELSE IF ex.RefreshToken # ""
    \* _ = keyring.Set(...): a failed write is ignored
    THEN ConfigureOutcome(<<>>, <<"WellKnownAuth", "keyring.Get", "Token", "keyring.Set">>,
            "Bearer " \o ex.AccessToken,
            IF setOK THEN [stored |-> TRUE, token |-> ex.RefreshToken] ELSE store)
    ELSE ConfigureOutcome(<<>>, <<"WellKnownAuth", "keyring.Get", "Token">>,
            "Bearer " \o ex.AccessToken, store)

\* the credential decision of Configure, after the endpoint was parsed
Credentials(environ, data, wk, ex, setOK, store) ==
    IF (environ.STARTRAIL_TOKEN = "" /\ environ.STARTRAIL_API_KEY = "") \/ data.ApiKey.null
    THEN DeviceFlow(wk, ex, setOK, store)
    ELSE IF environ.STARTRAIL_TOKEN # ""
    THEN ConfigureOutcome(<<>>, <<>>, "Bearer " \o environ.STARTRAIL_TOKEN, store)
    ELSE IF environ.STARTRAIL_API_KEY # ""
    THEN ConfigureOutcome(<<>>, <<>>, "apiKey " \o environ.STARTRAIL_API_KEY, store)
    ELSE ConfigureOutcome(<<>>, <<>>, "apiKey " \o ValueString(data.ApiKey), store)

\* StartrailProvider.Configure, once per provider process
Configure(data, wk, ex, setOK) ==
    /\ ~cfgLast.called
    /\ LET o == IF UrlParseFails(ValueString(data.Endpoint))
                THEN ConfigureOutcome(
                        AddError(<<>>, "Invalid endpoint",
                            "The endpoint is not a valid URL, got error"),
                        <<>>, "", keyring)
                ELSE Credentials(osEnv, data, wk, ex, setOK, keyring)
           tenant == IF ValueString(data.Tenant) = "" THEN "default"
                     ELSE ValueString(data.Tenant)
           c == IF HasError(o.diags) THEN NoClient
                ELSE StartrailProviderClient(o.token, tenant, ValueString(data.Environment))
       IN /\ keyring' = o.store
          /\ resourceData' = c
          /\ dataSourceData' = c
          /\ cfgLast' = [called |-> TRUE, data |-> data, wk |-> wk, ex |-> ex,
                         store |-> keyring, calls |-> o.calls, diags |-> o.diags]
    /\ UNCHANGED <<osEnv, race, state, dsState, last>>

DoConfigure ==
    \E data \in ProviderConfigs, wk \in WellKnownResults, ex \in TokenResults,
       setOK \in BOOLEAN :
        Configure(data, wk, ex, setOK)

\* a provider process before Configure
InitConfigure ==
    /\ osEnv \in [STARTRAIL_TOKEN : {"", "tok"}, STARTRAIL_API_KEY : {"", "envkey"}]
    /\ keyring \in {[stored |-> FALSE, token |-> ""], [stored |-> TRUE, token |-> "rt0"]}
    /\ cfgLast = NoConfigure
    /\ resourceData = NoClient
    /\ dataSourceData = NoClient
    /\ state = NullState
    /\ dsState = NullState
    /\ last = NoOperation
    /\ race = NoRace

NextConfigure == DoConfigure

SpecConfigure == InitConfigure /\ [][NextConfigure]_vars

-----------------------------------------------------------------------------
(* Specification of a provider process: Configure, then the lifecycle      *)
(* operations of the resource and the data source with the client that     *)
(* Configure handed over. Terraform calls no operation of a provider whose *)
(* Configure reported an error.                                            *)

\* what Execute may return in the provider process: a transport error, or the
\* service with status 200 or 500 and no diagnostics
ProviderResponses(service) ==
    {TransportError} \cup {HttpResponse(st, <<>>, service) : st \in RemoteStatusCodes}

\* the plan applied in the provider process: the environment is left to the
\* provider's default
ProviderPlans == {data \in LifecyclePlans : ValueString(data.Environment) = ""}
ProviderDataSourceConfigs ==
    {data \in DataSourceConfigs : ValueString(data.Environment) = ""}

ProviderCreate ==
    /\ resourceData.set
    /\ \E data \in ProviderPlans :
        \E r \in ProviderResponses(PostService(data, resourceData)) : Create(data, r)

ProviderUpdate ==
    /\ resourceData.set
    /\ \E data \in ProviderPlans :
        \E r \in ProviderResponses(PostService(data, resourceData)) : Update(data, r)

ProviderRead ==
    /\ resourceData.set
    /\ state.present
    /\ \E r \in ProviderResponses(StoredService(resourceData.Tenant,
                    ResolveEnvironment(ValueString(state.data.Environment), resourceData),
                    ValueString(state.data.Name))) :
            Read(r)

ProviderDataSourceRead ==
    /\ dataSourceData.set
    /\ \E data \in ProviderDataSourceConfigs :
        \E r \in ProviderResponses(StoredService(dataSourceData.Tenant,
                    ResolveEnvironment(ValueString(data.Environment), dataSourceData),
                    ValueString(data.Name))) :
            DataSourceRead(data, r)

ProviderDelete ==
    \E r \in ProviderResponses(EmptyService) : Delete(r)

ProviderImportState ==
    /\ resourceData.set
    /\ \E id \in {"acme/prod/hello-world"} : ImportState(id)

NextProvider ==
    \/ DoConfigure
    \/ ProviderCreate
    \/ ProviderUpdate
    \/ ProviderRead
    \/ ProviderDataSourceRead
    \/ ProviderDelete
    \/ ProviderImportState

SpecProvider == InitConfigure /\ [][NextProvider]_vars

-----------------------------------------------------------------------------
(* Specification of provider processes that run the device-flow branch     *)
(* of Configure against one credential store. Each external call of the    *)
(* branch is one step; the code takes no lock around them.                 *)

\* client.HelloAPI.WellKnownAuth(ctx).Execute() and the three checks on it
RaceWellKnownAuth(p, wk) ==
    /\ race.proc[p].pc = "WellKnownAuth"
    /\ race' = [race EXCEPT !.proc[p].pc =
                    IF wk.err \/ wk.StatusCode # StatusOK \/ ~wk.Enabled
                    THEN "failed" ELSE "keyring.Get"]
    /\ UNCHANGED <<osEnv, keyring, cfgLast, resourceData, dataSourceData, state, dsState, last>>

\* refreshToken, err := keyring.Get("startrail", "refresh_token")
RaceKeyringGet(p) ==
    /\ race.proc[p].pc = "keyring.Get"
    /\ race' = IF keyring.stored
               THEN [race EXCEPT !.proc[p].pc = "Token",
                                 !.proc[p].refreshToken = keyring.token]
               ELSE [race EXCEPT !.proc[p].pc = "failed"]
    /\ UNCHANGED <<osEnv, keyring, cfgLast, resourceData, dataSourceData, state, dsState, last>>

\* what tokenSource.Token() may return to process p: the authorization server
\* issues each process its own access token and, when it rotates, its own
\* refresh token
RaceTokenResults(p) ==
    LET n == IF p = "p1" THEN "1" ELSE IF p = "p2" THEN "2" ELSE "3" IN
    {[err |-> TRUE, AccessToken |-> "", RefreshToken |-> ""],
     [err |-> FALSE, AccessToken |-> "at" \o n, RefreshToken |-> ""],
     [err |-> FALSE, AccessToken |-> "at" \o n, RefreshToken |-> "rt" \o n]}

\* t, err := tokenSource.Token() with the refresh token read before
RaceToken(p, ex) ==
    /\ race.proc[p].pc = "Token"
    /\ race' = IF ex.err
               THEN [race EXCEPT !.proc[p].pc = "failed"]
               ELSE [race EXCEPT !.proc[p].pc =
                                    IF ex.RefreshToken # "" THEN "keyring.Set" ELSE "done",
                                 !.proc[p].rotated = ex.RefreshToken,
                                 !.proc[p].token = "Bearer " \o ex.AccessToken,
                                 !.proc[p].exchangedAt = Len(race.writes)]
    /\ UNCHANGED <<osEnv, keyring, cfgLast, resourceData, dataSourceData, state, dsState, last>>

\* a faulty variant of RaceKeyringSet: the token written is the one read
RaceKeyringSetStale(p, setOK) ==
    /\ race.proc[p].pc = "keyring.Set"
    /\ keyring' = IF setOK THEN [stored |-> TRUE, token |-> race.proc[p].refreshToken]
                  ELSE keyring
    /\ race' = [race EXCEPT !.proc[p].pc = "done", !.proc[p].wrote = setOK,
                            !.writes = IF setOK THEN Append(@, p) ELSE @]
    /\ UNCHANGED <<osEnv, cfgLast, resourceData, dataSourceData, state, dsState, last>>
\* _ = keyring.Set("startrail", "refresh_token", t.RefreshToken), after which
\* Configure builds the client
RaceKeyringSet(p, setOK) ==
    /\ race.proc[p].pc = "keyring.Set"
    /\ keyring' = IF setOK THEN [stored |-> TRUE, token |-> race.proc[p].rotated]
                  ELSE keyring
    /\ race' = [race EXCEPT !.proc[p].pc = "done", !.proc[p].wrote = setOK,
                            !.writes = IF setOK THEN Append(@, p) ELSE @]
    /\ UNCHANGED <<osEnv, cfgLast, resourceData, dataSourceData, state, dsState, last>>

DoRaceWellKnownAuth == \E p \in Processes, wk \in WellKnownResults : RaceWellKnownAuth(p, wk)
DoRaceKeyringGet == \E p \in Processes : RaceKeyringGet(p)
DoRaceToken == \E p \in Processes : \E ex \in RaceTokenResults(p) : RaceToken(p, ex)
DoRaceKeyringSet == \E p \in Processes, setOK \in BOOLEAN : RaceKeyringSet(p, setOK)

\* every process has entered the device-flow branch: no credential in the
\* environment, endpoint parsed
InitRace ==
    /\ osEnv = [STARTRAIL_TOKEN |-> "", STARTRAIL_API_KEY |-> ""]
    /\ keyring \in {[stored |-> FALSE, token |-> ""], [stored |-> TRUE, token |-> "rt0"]}
    /\ cfgLast = NoConfigure
    /\ resourceData = NoClient
    /\ dataSourceData = NoClient
    /\ state = NullState
    /\ dsState = NullState
    /\ last = NoOperation
    /\ race = [proc |-> [p \in Processes |-> ProcessAt("WellKnownAuth", "", "", "", 0, FALSE)],
               writes |-> <<>>]

NextRace ==
    \/ DoRaceWellKnownAuth
    \/ DoRaceKeyringGet
    \/ DoRaceToken
    \/ DoRaceKeyringSet

SpecRace == InitRace /\ [][NextRace]_vars

-----------------------------------------------------------------------------
(* Specification of the mapping: one Create or Update of an attribute set  *)
(* against a remote that echoes the document it was sent with status 200.  *)

EchoResponse(data, client) == HttpResponse(StatusOK, <<>>, PostService(data, client))

ImportedState == StateSet([ZeroModel EXCEPT !.Id = StringValue("acme/prod/hello-world")])

InitMapper ==
    /\ osEnv = [STARTRAIL_TOKEN |-> "", STARTRAIL_API_KEY |-> ""]
    /\ keyring = [stored |-> FALSE, token |-> ""]
    /\ cfgLast = NoConfigure
    /\ resourceData \in ConfiguredClients
    /\ dataSourceData = resourceData
    /\ state \in {NullState, ImportedState}
    /\ dsState = NullState
    /\ last = NoOperation
    /\ race = NoRace

MapperCreate ==
    /\ last.op = "none"
    /\ ~state.present
    /\ \E data \in MapperPlans : Create(data, EchoResponse(data, resourceData))

MapperUpdate ==
    /\ last.op = "none"
    /\ state.present
    /\ \E data \in MapperPlans : Update(data, EchoResponse(data, resourceData))

NextMapper == MapperCreate \/ MapperUpdate

SpecMapper == InitMapper /\ [][NextMapper]_vars

-----------------------------------------------------------------------------
(* Specification of the diagnostics translation: one call of               *)
(* handleStartrailDiagnostics on a remote diagnostics list.                *)

RemoteDiagnostics ==
    [Severity : {"error", "Error", "ERROR", "warning", "Warning", "info"},
     Summary : {"rejected", "deprecated"}, Detail : {"quota"}]

HandleDiagnostics ==
    /\ last.op = "none"
    /\ \E diagnostics \in SeqsUpTo(RemoteDiagnostics, MaxDiags) :
        last' = [op |-> "handleStartrailDiagnostics", diagnostics |-> diagnostics,
                 diags |-> handleStartrailDiagnostics(diagnostics, <<>>)]
    /\ UNCHANGED <<osEnv, race, keyring, cfgLast, resourceData, dataSourceData, state, dsState>>

NextDiagnostics == HandleDiagnostics

SpecDiagnostics == Init /\ [][NextDiagnostics]_vars

-----------------------------------------------------------------------------
(* Claims.                                                                 *)

ReadsAndWrites == {"Create", "Update", "Read", "DataSourceRead"}

\* C1: in Create, Update, Read and the data source's Read, a remote response
\* with a status code other than 200 makes the operation report at least one
\* error and leaves the Terraform state as it was before the operation.
C1_NonOkStatusLeavesState ==
    [][(/\ last'.op \in ReadsAndWrites
        /\ ~last'.resp.err
        /\ last'.resp.StatusCode # StatusOK)
       => (/\ HasError(last'.diags)
           /\ state' = state
           /\ dsState' = dsState)]_vars

\* C2: with a valid endpoint, a non-empty STARTRAIL_TOKEN gives the header
\* "Bearer <STARTRAIL_TOKEN>", otherwise a non-empty STARTRAIL_API_KEY gives
\* "apiKey <STARTRAIL_API_KEY>", and in both cases Configure makes none of the
\* device-flow calls, whatever the api_key attribute is.
C2_EnvCredentialsSkipDeviceFlow ==
    (cfgLast.called /\ ~UrlParseFails(ValueString(cfgLast.data.Endpoint)))
    => /\ osEnv.STARTRAIL_TOKEN # ""
            => /\ resourceData.set
               /\ resourceData.Authorization = "Bearer " \o osEnv.STARTRAIL_TOKEN
               /\ cfgLast.calls = <<>>
       /\ (osEnv.STARTRAIL_TOKEN = "" /\ osEnv.STARTRAIL_API_KEY # "")
            => /\ resourceData.set
               /\ resourceData.Authorization = "apiKey " \o osEnv.STARTRAIL_API_KEY
               /\ cfgLast.calls = <<>>

\* C3: with a valid endpoint, neither environment variable set and a non-empty
\* api_key attribute, the header is "apiKey <api_key>" and Configure makes none
\* of the device-flow calls.
C3_ConfiguredApiKeyUsed ==
    (/\ cfgLast.called
     /\ ~UrlParseFails(ValueString(cfgLast.data.Endpoint))
     /\ osEnv.STARTRAIL_TOKEN = ""
     /\ osEnv.STARTRAIL_API_KEY = ""
     /\ ValueString(cfgLast.data.ApiKey) # "")
    => /\ resourceData.set
       /\ resourceData.Authorization = "apiKey " \o ValueString(cfgLast.data.ApiKey)
       /\ cfgLast.calls = <<>>

IsErrorSeverity(d) == d.Severity \in {"error", "Error"}
IsWarningSeverity(d) == d.Severity \in {"warning", "Warning"}
Translated(d) ==
    [severity |-> IF IsErrorSeverity(d) THEN "error" ELSE "warning",
     summary |-> d.Summary, detail |-> d.Detail]
CountOf(seq, P(_)) == Cardinality({i \in DOMAIN seq : P(seq[i])})
IsErrorDiag(d) == d.severity = "error"
IsWarningDiag(d) == d.severity = "warning"

\* C4 as claimed: for every remote diagnostics list, the number of errors added
\* equals the number of error-severity items and the number of warnings added
\* equals the number of warning-severity items.
C4_OnePerItem ==
    last.op = "handleStartrailDiagnostics"
    => /\ CountOf(last.diags, IsErrorDiag) = CountOf(last.diagnostics, IsErrorSeverity)
       /\ CountOf(last.diags, IsWarningDiag) = CountOf(last.diagnostics, IsWarningSeverity)

\* the positions of a remote diagnostics list that are translated: an item of
\* error or warning severity whose translation no earlier item already gave
FirstOccurrences(ds) ==
    {i \in DOMAIN ds :
        /\ IsErrorSeverity(ds[i]) \/ IsWarningSeverity(ds[i])
        /\ \A j \in 1..(i - 1) :
            ~(/\ IsErrorSeverity(ds[j]) \/ IsWarningSeverity(ds[j])
              /\ Translated(ds[j]) = Translated(ds[i]))}
NthOf(S, n) == CHOOSE i \in S : Cardinality({j \in S : j < i}) = n - 1

\* C4 as amended: handleStartrailDiagnostics translates the list item by item
\* in list order, an error-severity item to an error and a warning-severity
\* item to a warning with the item's summary and detail, and skips an item
\* whose translation is already in the collection; so one error plus one
\* warning yields exactly one error and one warning.
C4_OnePerDistinctItem ==
    last.op = "handleStartrailDiagnostics"
    => LET kept == FirstOccurrences(last.diagnostics) IN
       /\ Len(last.diags) = Cardinality(kept)
       /\ \A n \in DOMAIN last.diags :
            last.diags[n] = Translated(last.diagnostics[NthOf(kept, n)])
       /\ (/\ CountOf(last.diagnostics, IsErrorSeverity) = 1
           /\ CountOf(last.diagnostics, IsWarningSeverity) = 1)
          => (/\ CountOf(last.diags, IsErrorDiag) = 1
              /\ CountOf(last.diags, IsWarningDiag) = 1)

\* C4 witness: an error, a warning and the same error again give one error
\* followed by one warning
C4_Witness ==
    /\ last.op = "handleStartrailDiagnostics"
    /\ Len(last.diagnostics) = 3
    /\ IsErrorSeverity(last.diagnostics[1])
    /\ IsWarningSeverity(last.diagnostics[2])
    /\ last.diagnostics[3] = last.diagnostics[1]
    /\ last.diags = <<Translated(last.diagnostics[1]), Translated(last.diagnostics[2])>>

Posts == {"Create", "Update"}
EchoedOk(op) == op.resp = HttpResponse(StatusOK, <<>>, op.sent.Service)
\* the schema's validators: name and environment match ^[a-z0-9-]+$
ValidAttributes(data) ==
    ValueString(data.Environment) # "" /\ ValueString(data.Name) # ""

AccessTriples(list) ==
    {<<ValueBool(list[i].Auth), ValueString(list[i].Endpoint), ValueBool(list[i].Internal)>> :
        i \in DOMAIN list}
\* a block list keyed by source: each source with the labels of its last block
KeyedBySource(list) ==
    {<<ValueString(list[i].Source), ElementsAs(list[i].Labels)>> :
        i \in {i \in DOMAIN list :
                 \A j \in DOMAIN list : j > i => list[j].Source # list[i].Source}}

\* C5: a valid attribute set sent by Create or Update to a remote that echoes
\* it with status 200 comes back in state with the same tenant, environment,
\* name, description, remarks, disabled, set of access triples, and logging
\* and source entries keyed by source, whatever the order of the lists.
C5_RoundTripPreserves ==
    (last.op \in Posts /\ EchoedOk(last) /\ ValidAttributes(last.data))
    => /\ last.wrote
       /\ state.present
       /\ state.data.Id = StringValue(resourceData.Tenant \o "/"
                            \o ValueString(last.data.Environment) \o "/"
                            \o ValueString(last.data.Name))
       /\ ValueString(state.data.Environment) = ValueString(last.data.Environment)
       /\ ValueString(state.data.Name) = ValueString(last.data.Name)
       /\ ValueString(state.data.Description) = ValueString(last.data.Description)
       /\ ValueString(state.data.Remarks) = ValueString(last.data.Remarks)
       /\ ValueBool(state.data.Disabled) = ValueBool(last.data.Disabled)
       /\ AccessTriples(state.data.Access) = AccessTriples(last.data.Access)
       /\ KeyedBySource(state.data.Logging) = KeyedBySource(last.data.Logging)
       /\ KeyedBySource(state.data.Sources) = KeyedBySource(last.data.Sources)

\* C5 witness: a valid attribute set with a description, no remarks and two
\* logging blocks came back with the logging list in the other order
C5_Witness ==
    /\ last.op = "Create"
    /\ EchoedOk(last)
    /\ ValidAttributes(last.data)
    /\ ValueString(last.data.Description) # ""
    /\ last.data.Remarks.null
    /\ Len(last.data.Logging) = 2
    /\ Len(state.data.Logging) = 2
    /\ state.data.Logging[1].Source = last.data.Logging[2].Source
    /\ state.data.Logging[2].Source = last.data.Logging[1].Source

\* C6: whenever Create, Update or Read writes the state, the id written is
\* tenant/environment/name of the remote response of that operation.
C6_IdFromResponse ==
    (last.op \in {"Create", "Update", "Read"} /\ last.wrote)
    => /\ ~last.resp.err
       /\ state.data.Id = StringValue(last.resp.Response.Tenant \o "/"
                            \o last.resp.Response.Environment \o "/"
                            \o last.resp.Response.Name)

\* C7: the document Create and Update send carries the provider's default
\* environment when the resource's environment attribute is empty, and the
\* resource's own environment otherwise.
C7_EnvironmentFallback ==
    last.op \in Posts
    => /\ last.sent.api = "Create"
       /\ last.sent.Service.Environment =
            IF ValueString(last.data.Environment) = ""
            THEN resourceData.Environment
            ELSE ValueString(last.data.Environment)

\* C7 witness: an empty environment attribute under the provider default
\* "staging" was sent as "staging"
C7_Witness ==
    /\ last.op = "Create"
    /\ ValueString(last.data.Environment) = ""
    /\ resourceData.Environment = "staging"
    /\ last.sent.Service.Environment = "staging"

\* the blocks of a list whose source no later block repeats carry the labels
\* the map holds for that source, and the map holds one entry per source
LastBlockWins(list, m) ==
    \A i \in DOMAIN list :
        LET k == ValueString(list[i].Source) IN
        /\ Cardinality({p \in m : p[1] = k}) = 1
        /\ (\A j \in DOMAIN list : j > i => list[j].Source # list[i].Source)
            => <<k, ElementsAs(list[i].Labels)>> \in m

\* C8: when logging (or source) blocks share a source, the document sent holds
\* one entry for that source with the labels of the last such block, and the
\* collision is reported neither as an error nor as a warning.
C8_LastBlockWins ==
    (last.op \in Posts /\ EchoedOk(last))
    => /\ LastBlockWins(last.data.Logging, last.sent.Service.Logging)
       /\ LastBlockWins(last.data.Sources, last.sent.Service.Sources)
       /\ last.diags = <<>>

\* C8 witness: two logging blocks of one source with different labels were sent
C8_Witness ==
    /\ last.op \in Posts
    /\ EchoedOk(last)
    /\ Len(last.data.Logging) = 2
    /\ last.data.Logging[1].Source = last.data.Logging[2].Source
    /\ ElementsAs(last.data.Logging[1].Labels) # ElementsAs(last.data.Logging[2].Labels)
    /\ Cardinality(last.sent.Service.Logging) = 1

\* the list emitted for a response map: one element per key, carrying the key
\* as its source and the entry's labels, no source twice
OnePerKey(list, m) ==
    /\ Len(list) = Cardinality(MapKeys(m))
    /\ \A i \in DOMAIN list :
        /\ ~list[i].Source.null
        /\ ~list[i].Labels.null
        /\ <<list[i].Source.v, list[i].Labels.elems>> \in m
    /\ \A i, j \in DOMAIN list : i # j => list[i].Source # list[j].Source

\* C9: in the document sent, the keys of the logging and sources maps are the
\* source values of the blocks; in the state written from a response, each
\* list has one element per map key, with the key as source and the entry's
\* labels, and no source twice.
C9_KeyIsSource ==
    last.op \in Posts
    => /\ MapKeys(last.sent.Service.Logging) =
            {ValueString(last.data.Logging[i].Source) : i \in DOMAIN last.data.Logging}
       /\ MapKeys(last.sent.Service.Sources) =
            {ValueString(last.data.Sources[i].Source) : i \in DOMAIN last.data.Sources}
       /\ (last.wrote /\ ~HasError(last.diags))
            => /\ OnePerKey(state.data.Logging, last.resp.Response.Logging)
               /\ OnePerKey(state.data.Sources, last.resp.Response.Sources)

\* C9 witness: a response with two logging keys was written as a list of two
C9_Witness ==
    /\ last.op \in Posts
    /\ last.wrote
    /\ Cardinality(last.resp.Response.Logging) = 2
    /\ Len(state.data.Logging) = 2

\* C10: Create, Update and Read write nothing to state when they report an
\* error, and what they write is the model parsed from a response with
\* status 200.
C10_NoPartialState ==
    last.op \in {"Create", "Update", "Read"}
    => /\ HasError(last.diags) => ~last.wrote
       /\ last.wrote
            => /\ ~last.resp.err
               /\ last.resp.StatusCode = StatusOK
               /\ state.data \in ParseServiceResponses(last.resp.Response)

\* Configure entered the branch that bootstraps a token through the device
\* flow: the endpoint parsed and the condition of that branch held
DeviceFlowPath ==
    /\ cfgLast.called
    /\ ~(ValueString(cfgLast.data.Endpoint) \in InvalidEndpoints)
    /\ \/ osEnv.STARTRAIL_TOKEN = "" /\ osEnv.STARTRAIL_API_KEY = ""
       \/ cfgLast.data.ApiKey.null
NoClientHanded == resourceData = NoClient /\ dataSourceData = NoClient
CallsOf(name) == {i \in DOMAIN cfgLast.calls : cfgLast.calls[i] = name}

\* C11: in the device-flow branch, when the well-known endpoint answers with
\* status 200 and device flow disabled, Configure reports one error telling
\* the user to pass an 'api_key', makes no call after the well-known query
\* (no read or write of the credential store, no token exchange), leaves the
\* store as it was and hands no client to resources or data sources.
C11_DeviceFlowDisabled ==
    (/\ DeviceFlowPath
     /\ ~cfgLast.wk.err
     /\ cfgLast.wk.StatusCode = StatusOK
     /\ ~cfgLast.wk.Enabled)
    => /\ cfgLast.diags = <<ErrorDiagnostic("Client Error",
            "Device flow is not enabled for the tenant. Please pass an 'api_key' instead")>>
       /\ cfgLast.calls = <<"WellKnownAuth">>
       /\ CallsOf("keyring.Get") = {} /\ CallsOf("keyring.Set") = {}
       /\ CallsOf("Token") = {}
       /\ keyring = cfgLast.store
       /\ NoClientHanded

\* C11 witness: with a refresh token stored and no credentials anywhere, a
\* tenant without device flow was refused
C11_Witness ==
    /\ DeviceFlowPath
    /\ ~cfgLast.wk.err /\ cfgLast.wk.StatusCode = StatusOK /\ ~cfgLast.wk.Enabled
    /\ cfgLast.store.stored
    /\ HasError(cfgLast.diags)
    /\ NoClientHanded

\* C12: in the device-flow branch, when device flow is enabled and no refresh
\* token is stored, Configure reports one error about the credential store,
\* makes no call after the read that failed (no token exchange, no device-code
\* request, no write), leaves the store as it was and hands no client.
C12_MissingRefreshToken ==
    (/\ DeviceFlowPath
     /\ ~cfgLast.wk.err
     /\ cfgLast.wk.StatusCode = StatusOK
     /\ cfgLast.wk.Enabled
     /\ ~cfgLast.store.stored)
    => /\ cfgLast.diags = <<ErrorDiagnostic("Client Error",
            "Unable to get refresh token from keyring, got error")>>
       /\ cfgLast.calls = <<"WellKnownAuth", "keyring.Get">>
       /\ CallsOf("Token") = {} /\ CallsOf("keyring.Set") = {}
       /\ keyring = cfgLast.store
       /\ NoClientHanded

\* C12 witness: device flow is enabled, the store is empty and the exchange
\* would have succeeded; Configure failed after reading the store
C12_Witness ==
    /\ DeviceFlowPath
    /\ cfgLast.wk.Enabled /\ cfgLast.wk.StatusCode = StatusOK /\ ~cfgLast.wk.err
    /\ ~cfgLast.store.stored
    /\ ~cfgLast.ex.err
    /\ cfgLast.calls = <<"WellKnownAuth", "keyring.Get">>
    /\ HasError(cfgLast.diags)
    /\ NoClientHanded

\* Configure exchanged the stored refresh token and the exchange returned a
\* new, non-empty refresh token
Rotated ==
    /\ DeviceFlowPath
    /\ ~cfgLast.wk.err /\ cfgLast.wk.StatusCode = StatusOK /\ cfgLast.wk.Enabled
    /\ cfgLast.store.stored
    /\ ~cfgLast.ex.err
    /\ cfgLast.ex.RefreshToken # ""

\* C13: after Configure the credential store holds the refresh token the
\* exchange returned when a successful exchange returned a non-empty one, and
\* on every other path it holds what it held before.
C13_StoreFollowsRotation ==
    cfgLast.called
    => IF Rotated
       THEN keyring = [stored |-> TRUE, token |-> cfgLast.ex.RefreshToken]
       ELSE keyring = cfgLast.store

\* the credentials Configure can draw on: the two environment variables, the
\* api_key attribute and the access token of the exchange
CredentialsAvailable(environ, c) ==
    {environ.STARTRAIL_TOKEN, environ.STARTRAIL_API_KEY, ValueString(c.data.ApiKey),
     c.ex.AccessToken} \ {""}

\* C14: the step that is Configure ends either with an error and no client
\* handed over, or without error and with one client, the same for resources
\* and data sources, whose Authorization header is "Bearer " or "apiKey "
\* followed by a non-empty credential; and no step after Configure changes
\* the client of the resources or of the data sources.
C14_OneClientForLife ==
    [][/\ (~cfgLast.called /\ cfgLast'.called)
            => IF HasError(cfgLast'.diags)
               THEN resourceData' = NoClient /\ dataSourceData' = NoClient
               ELSE /\ resourceData'.set
                    /\ dataSourceData' = resourceData'
                    /\ \E c \in CredentialsAvailable(osEnv', cfgLast') :
                        resourceData'.Authorization \in {"Bearer " \o c, "apiKey " \o c}
                    /\ resourceData'.Tenant # ""
       /\ cfgLast.called
            => /\ resourceData' = resourceData
               /\ dataSourceData' = dataSourceData]_vars

\* C14 witness: the client handed over by a device-flow Configure is still in
\* place, for resources and data sources, after a Delete
C14_Witness ==
    /\ cfgLast.called
    /\ ~HasError(cfgLast.diags)
    /\ resourceData.set
    /\ resourceData.Authorization = "Bearer at1"
    /\ dataSourceData = resourceData
    /\ last.op = "Delete"

\* C15: the document Create and Update send carries a metadata with the labels
\* of the attribute set's metadata block when there is one, and no metadata
\* when there is none.
C15_MetadataSent ==
    last.op \in Posts
    => IF last.data.Metadata.present
       THEN /\ last.sent.Service.Metadata.has
            /\ ~last.sent.Service.Metadata.labelsNil
            /\ last.sent.Service.Metadata.labels = ElementsAs(last.data.Metadata.Labels)
       ELSE ~last.sent.Service.Metadata.has

\* the operations that write a state parsed from a response
Parsed(op) ==
    /\ op.op \in {"Create", "Update", "Read"}
    /\ op.wrote
    /\ ~op.resp.err
    /\ op.resp.StatusCode = StatusOK
    /\ ~HasError(op.diags)

\* C16: in a state written from a response, the metadata block is there
\* exactly when the response has a metadata; a metadata whose labels are empty
\* or missing gives a block with an empty labels map.
C16_MetadataBlockIffPresent ==
    Parsed(last)
    => LET m == last.resp.Response.Metadata IN
       /\ state.data.Metadata.present <=> m.has
       /\ (m.has /\ (m.labelsNil \/ m.labels = {}))
            => state.data.Metadata = [present |-> TRUE, Labels |-> MapValue({})]

\* C17: the document Create and Update send has one access rule per access
\* block, rule i with the auth, endpoint and internal values of block i (none
\* for an empty list); and the state written from a response has one access
\* block per rule of the response, block i with the values of rule i.
C17_AccessOneToOne ==
    last.op \in Posts
    => /\ Len(last.sent.Service.Access) = Len(last.data.Access)
       /\ \A i \in DOMAIN last.data.Access :
            last.sent.Service.Access[i] =
                [Auth |-> ValueBool(last.data.Access[i].Auth),
                 Endpoint |-> ValueString(last.data.Access[i].Endpoint),
                 Internal |-> ValueBool(last.data.Access[i].Internal)]
       /\ Parsed(last)
            => /\ Len(state.data.Access) = Len(last.resp.Response.Access)
               /\ \A i \in DOMAIN last.resp.Response.Access :
                    state.data.Access[i] =
                        [Auth |-> BoolValue(last.resp.Response.Access[i].Auth),
                         Endpoint |-> StringValue(last.resp.Response.Access[i].Endpoint),
                         Internal |-> BoolValue(last.resp.Response.Access[i].Internal)]

\* C17 witness: two different access blocks were sent as two rules and came
\* back as two blocks in the order of the response
C17_Witness ==
    /\ last.op \in Posts
    /\ Parsed(last)
    /\ Len(last.data.Access) = 2
    /\ last.data.Access[1] # last.data.Access[2]
    /\ Len(last.sent.Service.Access) = 2
    /\ Len(state.data.Access) = 2
    /\ state.data.Access[1].Endpoint = StringValue(last.resp.Response.Access[1].Endpoint)
    /\ state.data.Access[2].Endpoint = StringValue(last.resp.Response.Access[2].Endpoint)
    /\ state.data.Access[1].Endpoint # state.data.Access[2].Endpoint

\* the request Delete issues for the prior state: provider tenant, resolved
\* environment, name of the prior state
DeleteTargetsPriorState(op, client) ==
    /\ op.calls = 1
    /\ op.sent = [api |-> "Delete", Tenant |-> client.Tenant,
                  Environment |-> IF ValueString(op.data.Environment) = ""
                                  THEN client.Environment
                                  ELSE ValueString(op.data.Environment),
                  Name |-> ValueString(op.data.Name)]

\* C18 as claimed: a step of Delete issues the remote Delete for (provider
\* tenant, resolved environment, name of the prior state), leaves the state
\* as it was, and, the remote call completed, reports no error exactly when
\* the status code is 200.
C18_StatusAloneDecides ==
    [][last'.op = "Delete" /\ last' # last
        => /\ last'.data = state.data
           /\ DeleteTargetsPriorState(last', resourceData)
           /\ state' = state /\ ~last'.wrote
           /\ ~last'.resp.err
                => (~HasError(last'.diags) <=> last'.resp.StatusCode = StatusOK)]_vars

\* C18 as amended: a step of Delete issues the remote Delete for (provider
\* tenant, resolved environment, name of the prior state), leaves the state
\* as it was, and, the remote call completed, reports no error exactly when
\* the response carries no diagnostic of severity "error" or "Error" and the
\* status code is 200.
C18_StatusAndDiagnosticsDecide ==
    [][last'.op = "Delete" /\ last' # last
        => /\ last'.data = state.data
           /\ DeleteTargetsPriorState(last', resourceData)
           /\ state' = state /\ ~last'.wrote
           /\ ~last'.resp.err
                => (~HasError(last'.diags)
                    <=> /\ last'.resp.StatusCode = StatusOK
                        /\ \A i \in DOMAIN last'.resp.Diagnostics :
                            ~IsErrorSeverity(last'.resp.Diagnostics[i]))]_vars

\* C18 witness: a Delete answered with status 200 and an error diagnostic
\* reported an error and left the state in place
C18_Witness ==
    /\ last.op = "Delete"
    /\ ~last.resp.err
    /\ last.resp.StatusCode = StatusOK
    /\ \E i \in DOMAIN last.resp.Diagnostics : IsErrorSeverity(last.resp.Diagnostics[i])
    /\ HasError(last.diags)
    /\ state.present
    /\ last.sent.api = "Delete"
    /\ last.sent.Environment = "staging"

\* C19: when the endpoint attribute is not a parseable URL, Configure reports
\* one "Invalid endpoint" error, makes no call at all (no well-known query, no
\* read or write of the credential store, no token exchange), leaves the store
\* as it was and hands no client.
C19_InvalidEndpoint ==
    (cfgLast.called /\ ValueString(cfgLast.data.Endpoint) \in InvalidEndpoints)
    => /\ Len(cfgLast.diags) = 1
       /\ cfgLast.diags[1].severity = "error"
       /\ cfgLast.diags[1].summary = "Invalid endpoint"
       /\ cfgLast.calls = <<>>
       /\ keyring = cfgLast.store
       /\ NoClientHanded

\* C19 witness: an unparseable endpoint with no credential in the environment
\* and a usable device flow behind it was refused before any call
C19_Witness ==
    /\ cfgLast.called
    /\ ValueString(cfgLast.data.Endpoint) = "http://[::1"
    /\ osEnv.STARTRAIL_TOKEN = "" /\ osEnv.STARTRAIL_API_KEY = ""
    /\ cfgLast.wk.Enabled /\ cfgLast.store.stored /\ ~cfgLast.ex.err
    /\ cfgLast.calls = <<>>
    /\ HasError(cfgLast.diags)
    /\ NoClientHanded

RemoteOperations == {"Create", "Update", "Read", "Delete", "DataSourceRead"}

\* C20: an operation that talks to the remote issues at most one remote call,
\* and when that call fails at transport level it reports exactly one error,
\* a "Client Error", and stops there: one call was made and nothing is
\* written to state.
C20_NoRetry ==
    last.op \in RemoteOperations
    => /\ last.calls <= 1
       /\ last.resp.err
            => /\ last.calls = 1
               /\ Len(last.diags) = 1
               /\ last.diags[1].severity = "error"
               /\ last.diags[1].summary = "Client Error"
               /\ ~last.wrote

\* C21: when Create or Update gets a response with status 200 whose
\* diagnostics hold warning-severity items and no error-severity item, each of
\* those items is reported as a warning with its summary and detail, no error
\* is reported, and the model parsed from the response is written to state.
C21_WarningsSurfaced ==
    (/\ last.op \in Posts
     /\ ~last.resp.err
     /\ last.resp.StatusCode = StatusOK
     /\ \A i \in DOMAIN last.resp.Diagnostics : ~IsErrorSeverity(last.resp.Diagnostics[i])
     /\ \E i \in DOMAIN last.resp.Diagnostics : IsWarningSeverity(last.resp.Diagnostics[i]))
    => /\ \A i \in DOMAIN last.resp.Diagnostics :
            IsWarningSeverity(last.resp.Diagnostics[i])
            => \E n \in DOMAIN last.diags :
                last.diags[n] = WarningDiagnostic(last.resp.Diagnostics[i].Summary,
                                                  last.resp.Diagnostics[i].Detail)
       /\ ~HasError(last.diags)
       /\ last.wrote
       /\ state.data \in ParseServiceResponses(last.resp.Response)

\* the case variants of the two severities among the remote diagnostics
ErrorVariants == {"error", "Error", "ERROR"}
WarningVariants == {"warning", "Warning", "WARNING"}

\* C22: of the diagnostics of a completed remote call, every item whose
\* severity is a case variant of "error" is reported as an error with its
\* summary and detail and, in Update, Read and the data source's Read, no
\* state is written; every item whose severity is a case variant of "warning"
\* is reported as a warning by Read, the data source's Read and Delete.
C22_CaseInsensitiveSeverity ==
    (last.op \in RemoteOperations /\ ~last.resp.err)
    => \A i \in DOMAIN last.resp.Diagnostics :
        LET d == last.resp.Diagnostics[i] IN
        /\ d.Severity \in ErrorVariants
            => /\ ErrorDiagnostic(d.Summary, d.Detail) \in Range(last.diags)
               /\ last.op \in {"Update", "Read", "DataSourceRead"} => ~last.wrote
        /\ (d.Severity \in WarningVariants /\ last.op \in {"Read", "DataSourceRead", "Delete"})
            => WarningDiagnostic(d.Summary, d.Detail) \in Range(last.diags)

\* C23: a step of ImportState makes no remote call and leaves a state that
\* holds the supplied identifier "acme/prod/hello-world" as id and nothing
\* else; and the Read that follows an ImportState issues Get for the provider
\* tenant, the provider's default environment and an empty name, which is not
\* the triple (acme, prod, hello-world) the identifier spells.
C23_ImportPassesThrough ==
    [][/\ last'.op = "ImportState"
            => /\ last'.calls = 0
               /\ last'.sent = NoRequest
               /\ state'.present
               /\ state'.data.Id = StringValue("acme/prod/hello-world")
               /\ [state'.data EXCEPT !.Id = NullString] = ZeroModel
       /\ (last.op = "ImportState" /\ last'.op = "Read")
            => /\ last'.sent = GetRequest(resourceData.Tenant, resourceData.Environment, "")
               /\ last'.sent # GetRequest("acme", "prod", "hello-world")]_vars

\* C23 witness: after an import, Read asked for the service with an empty
\* name in the provider's default environment "staging" of tenant "default"
C23_Witness ==
    /\ last.op = "Read"
    /\ last.data = [ZeroModel EXCEPT !.Id = StringValue("acme/prod/hello-world")]
    /\ last.sent = GetRequest("default", "staging", "")

\* the process whose write to the store took effect last
LastWriter == race.writes[Len(race.writes)]

\* C24: nothing orders the read, the exchange and the write of one process
\* against those of another, and the store holds the rotated token of the
\* process whose write took effect last, whatever it held when that process
\* read it; so when two processes read the same stored token and both write
\* back, the store holds the rotated token of the last writer and the
\* rotated token of the other process is in the store no more.
C24_LastWriteWins ==
    /\ race.writes # <<>>
        => keyring = [stored |-> TRUE, token |-> race.proc[LastWriter].rotated]
    /\ \A p, q \in Processes :
        (/\ p # q
         /\ race.proc[p].wrote /\ race.proc[q].wrote
         /\ race.proc[p].refreshToken = race.proc[q].refreshToken
         /\ LastWriter = q)
        => /\ keyring.token = race.proc[q].rotated
           /\ keyring.token # race.proc[p].rotated

\* C24 witness: p1 and p2 both read "rt0" and both exchanged it before any
\* write; then p1 wrote "rt1" and p2 wrote "rt2": the store holds "rt2" and
\* "rt1" is lost
C24_Witness ==
    /\ race.proc["p1"].pc = "done" /\ race.proc["p2"].pc = "done"
    /\ race.proc["p1"].refreshToken = "rt0" /\ race.proc["p2"].refreshToken = "rt0"
    /\ race.proc["p1"].exchangedAt = 0 /\ race.proc["p2"].exchangedAt = 0
    /\ race.proc["p1"].rotated = "rt1" /\ race.proc["p2"].rotated = "rt2"
    /\ race.writes = <<"p1", "p2">>
    /\ keyring = [stored |-> TRUE, token |-> "rt2"]

\* the (tenant, environment, name) a request addresses
KeyOf(req) ==
    IF req.api = "Create"
    THEN <<req.Service.Tenant, req.Service.Environment, req.Service.Name>>
    ELSE <<req.Tenant, req.Environment, req.Name>>
IdOfKey(k) == StringValue(k[1] \o "/" \o k[2] \o "/" \o k[3])
\* the provider-level tenant: "default" when the tenant attribute is empty
ProviderTenant ==
    IF ValueString(cfgLast.data.Tenant) = "" THEN "default"
    ELSE ValueString(cfgLast.data.Tenant)
\* the key an operation on the attributes `data` is to address
KeyAddressed(data) ==
    <<ProviderTenant,
      IF ValueString(data.Environment) = "" THEN resourceData.Environment
      ELSE ValueString(data.Environment),
      ValueString(data.Name)>>
\* the id held in state spells the key a Read or Delete of that state addresses
KeyConsistent(st) == st.present /\ st.data.Id = IdOfKey(KeyAddressed(st.data))
KeyedOperations == {"Create", "Update", "Read", "Delete"}

\* C25: every request of Create, Update, Read and Delete carries the
\* provider-level tenant, the environment of the attributes or, when that is
\* empty, the provider's default, and the name of the attributes; a Create
\* that succeeds against an echoing remote leaves a state whose id spells the
\* key a Read or Delete would address; Update, Read and Delete keep it so; and
\* the key a later Read or Delete addresses is the one the id in state spells.
C25_KeyConsistency ==
    [][/\ last'.op \in KeyedOperations
            => KeyOf(last'.sent) = KeyAddressed(last'.data)
       /\ (last'.op = "Create" /\ Parsed(last') /\ EchoedOk(last'))
            => KeyConsistent(state')
       /\ (KeyConsistent(state) /\ last'.op \in {"Update", "Read", "Delete"})
            => /\ KeyConsistent(state')
               /\ last'.op \in {"Read", "Delete"}
                    => IdOfKey(KeyOf(last'.sent)) = state.data.Id]_vars

\* C25 witness: under a provider without tenant attribute and with default
\* environment "staging", a service created without environment is held in
\* state as "default/staging/hello-world" and Delete addressed that key
C25_Witness ==
    /\ cfgLast.called
    /\ cfgLast.data.Tenant.null
    /\ last.op = "Delete"
    /\ last.data.Id = StringValue("default/staging/hello-world")
    /\ last.sent = DeleteRequest("default", "staging", "hello-world")
    /\ state.data.Id = StringValue("default/staging/hello-world")

====
